---- MODULE Spec2Model ----
(***************************************************************************)
(* Discrete-event model of KantinPrasmananDES (src/app.py): the cafeteria  *)
(* line driven by a simpy Environment.  One step of the model is one       *)
(* Environment.step(): the earliest event is popped, the clock moves to    *)
(* its due time, and its callbacks run (resource / store triggers, then    *)
(* the resumed generator up to its next yield).                            *)
(***************************************************************************)
EXTENDS Integers, Sequences, FiniteSets, TLC

\* ---------------------------------------------------------------- bounds
MaxMahasiswa == 4
MaxKelompok == 2
MaxStaff == 2

\* Durations are drawn from small sets of whole time units, so that several
\* events can fall on the same simulated instant (random.expovariate can
\* return 0.0; the uniform holds are strictly positive).
LaukTimes == {1}
AngkutTimes == {1, 2}
NasiTimes == {1}

\* ------------------------------------------------------- program constants
LAUK_CAPACITY == 3
ANGKUT_CAPACITY == 2
NASI_CAPACITY == 2
DRAIN_THRESHOLD == 4
DRAIN_MAX == 5
URGENT == 0
NORMAL == 1

VARIABLES
    config,        \* Config: NUM_MAHASISWA, NUM_KELOMPOK, NUM_STAFF_PER_KELOMPOK,
                   \* MIN_SERVICE_TIME, MAX_SERVICE_TIME, MEAN_INTERARRIVAL
    run_pc,        \* run_simulation: "new", "running", "returned"
    now,           \* env.now
    queue,         \* env._queue, kept in (time, priority, insertion) order
    resource,      \* simpy.Resource objects: users, put_queue, capacity
    store,         \* simpy.Store objects: items, get_queue (and totals inserted / removed)
    pc,            \* position of every proses_mahasiswa generator
    frame,         \* locals of every proses_mahasiswa generator
    gen,           \* proses_kedatangan generator: pc and loop index i
    statistics,    \* self.statistics
    history,       \* observation of the run: per-entity join and grant instants, drains
    replay         \* the seeded random stream: draws made so far, and the first run's output

vars == <<config, run_pc, now, queue, resource, store, pc, frame, gen, statistics, history, replay>>

\* ------------------------------------------------------------ identities
petugas_lauk == <<"petugas_lauk", 0>>
petugas_angkut == <<"petugas_angkut", 0>>
petugas_nasi == <<"petugas_nasi", 0>>
kelompok_staff(i) == <<"kelompok_staff", i>>
antrian_angkut == <<"antrian_angkut", 0>>
antrian == <<"antrian", 0>>
no_target == <<"none", 0>>

mahasiswa(i) == <<"proses_mahasiswa", i>>
kedatangan == <<"proses_kedatangan", 0>>

Kelompok == 0 .. (config.NUM_KELOMPOK - 1)
Mahasiswa == 0 .. (config.NUM_MAHASISWA - 1)
ResourceIds == {petugas_lauk, petugas_angkut, petugas_nasi} \cup {kelompok_staff(i) : i \in Kelompok}
StoreIds == {antrian_angkut, antrian}

Min(a, b) == IF a <= b THEN a ELSE b

\* --------------------------------------------------------- random draws
\* random.uniform(a, b) = a + (b - a) * random(): the two ends stand for the range
Uniform(a, b) == {a, b}

\* random.expovariate(1.0 / mean): 0.0 is possible, the mean stands for a positive gap
Expovariate(mean) == {0, mean}

InterarrivalTimes == Expovariate(config.MEAN_INTERARRIVAL)
ServiceTimes == Uniform(config.MIN_SERVICE_TIME, config.MAX_SERVICE_TIME)

\* mutant of Draw: the stream is not re-seeded, the second model draws afresh
Draw_Unseeded(S) == S

\* random.seed(RANDOM_SEED) in __init__: a second model built from the same
\* Config draws the same stream again, value by value.
Draw(S) ==
    IF replay.mode = "second" /\ replay.k < Len(replay.draws)
    THEN {replay.draws[replay.k + 1]}
    ELSE S

\* the stream moves on by one value
Drawn(d) ==
    IF replay.mode = "first" THEN [replay EXCEPT !.draws = Append(@, d)]
    ELSE IF replay.mode = "second" THEN [replay EXCEPT !.k = @ + 1]
    ELSE replay

\* ------------------------------------------------------- event scheduler
Event(t, prio, kind, proc, target) ==
    [time |-> t, priority |-> prio, kind |-> kind, proc |-> proc, target |-> target]

\* number of queued events that sort before or equal to (t, prio)
RECURSIVE Before(_, _, _)
Before(q, t, prio) ==
    IF q = <<>> THEN 0
    ELSE IF Head(q).time < t \/ (Head(q).time = t /\ Head(q).priority <= prio)
         THEN 1 + Before(Tail(q), t, prio)
         ELSE 0

\* Environment.schedule: heappush keyed by (time, priority, eid); eids grow,
\* so a new event goes behind every queued event with the same time and priority.
Schedule(q, ev) ==
    LET k == Before(q, ev.time, ev.priority)
    IN SubSeq(q, 1, k) \o <<ev>> \o SubSeq(q, k + 1, Len(q))

\* The part of the simulation that library calls change.
World == [queue |-> Tail(queue), resource |-> resource, store |-> store]

Timeout(w, t, delay, proc) ==
    [w EXCEPT !.queue = Schedule(@, Event(t + delay, NORMAL, "Timeout", proc, no_target))]

Spawn(w, t, proc) ==
    [w EXCEPT !.queue = Schedule(@, Event(t, URGENT, "Initialize", proc, no_target))]

ProcessEnd(w, t, proc) ==
    [w EXCEPT !.queue = Schedule(@, Event(t, NORMAL, "Process", proc, no_target))]

\* ------------------------------------------------------- simpy.Resource
\* mutant of count: the load of a pool also counts its waiting requests
count_WithWaiters(w, r) == Cardinality(w.resource[r].users) + Len(w.resource[r].put_queue)

count(w, r) == Cardinality(w.resource[r].users)

\* mutant of TriggerPut: the head request is granted without looking at the capacity
TriggerPut_NoCapacityCheck(w, t, r) ==
    LET R == w.resource[r]
    IN IF R.put_queue # <<>>
       THEN [w EXCEPT !.resource[r].users = @ \cup {Head(R.put_queue)},
                      !.resource[r].put_queue = Tail(@),
                      !.queue = Schedule(@, Event(t, NORMAL, "Request", Head(R.put_queue), r))]
       ELSE w

\* Resource._do_put on the head of put_queue (BaseResource._trigger_put stops
\* after the first request because _do_put returns None).
TriggerPut(w, t, r) ==
    LET R == w.resource[r]
    IN IF R.put_queue # <<>> /\ Cardinality(R.users) < R.capacity
       THEN [w EXCEPT !.resource[r].users = @ \cup {Head(R.put_queue)},
                      !.resource[r].put_queue = Tail(@),
                      !.queue = Schedule(@, Event(t, NORMAL, "Request", Head(R.put_queue), r))]
       ELSE w

\* resource.request(): the request joins put_queue, then _trigger_put runs.
Request(w, t, r, proc) ==
    TriggerPut([w EXCEPT !.resource[r].put_queue = Append(@, proc)], t, r)

\* leaving the with block: resource.release(req) removes the user at once and
\* schedules the Release event, whose callback is _trigger_put.
Release(w, t, r, proc) ==
    [w EXCEPT !.resource[r].users = @ \ {proc},
              !.queue = Schedule(@, Event(t, NORMAL, "Release", proc, r))]

\* ---------------------------------------------------------- simpy.Store
\* mutant of TriggerGet: a pending get succeeds even when the store is empty
TriggerGet_NoEmptyCheck(w, t, s) ==
    LET S == w.store[s]
    IN IF S.get_queue # <<>>
       THEN [w EXCEPT !.store[s].items = IF @ = <<>> THEN <<>> ELSE Tail(@),
                      !.store[s].removed = @ + 1,
                      !.store[s].get_queue = Tail(@),
                      !.queue = Schedule(@, Event(t, NORMAL, "StoreGet", Head(S.get_queue), s))]
       ELSE w

\* Store._do_get on the head of get_queue.
TriggerGet(w, t, s) ==
    LET S == w.store[s]
    IN IF S.get_queue # <<>> /\ S.items # <<>>
       THEN [w EXCEPT !.store[s].items = Tail(@),
                      !.store[s].removed = @ + 1,
                      !.store[s].get_queue = Tail(@),
                      !.queue = Schedule(@, Event(t, NORMAL, "StoreGet", Head(S.get_queue), s))]
       ELSE w

\* mutant of StorePut: the put event is scheduled but the item is dropped
StorePut_Lost(w, t, s, proc, item) ==
    [w EXCEPT !.store[s].inserted = @ + 1,
              !.queue = Schedule(@, Event(t, NORMAL, "StorePut", proc, s))]

\* store.put(item): capacity is unbounded, the item is appended at once.
StorePut(w, t, s, proc, item) ==
    [w EXCEPT !.store[s].items = Append(@, item),
              !.store[s].inserted = @ + 1,
              !.queue = Schedule(@, Event(t, NORMAL, "StorePut", proc, s))]

\* mutant of StoreGet: the get succeeds at once and takes nothing
StoreGet_NoRemoval(w, t, s, proc) ==
    [w EXCEPT !.queue = Schedule(@, Event(t, NORMAL, "StoreGet", proc, s))]

\* store.get(): the get joins get_queue, then _trigger_get runs.
StoreGet(w, t, s, proc) ==
    TriggerGet([w EXCEPT !.store[s].get_queue = Append(@, proc)], t, s)

\* ---------------------------------------------------------- np.argmin
\* mutant of ArgMinFrom: on ties the scan keeps the last index instead of the first
RECURSIVE ArgMinFrom_LastOnTies(_, _, _, _)
ArgMinFrom_LastOnTies(w, i, best, K) ==
    IF i >= K THEN best
    ELSE IF count(w, kelompok_staff(i)) <= count(w, kelompok_staff(best))
         THEN ArgMinFrom_LastOnTies(w, i + 1, i, K)
         ELSE ArgMinFrom_LastOnTies(w, i + 1, best, K)

RECURSIVE ArgMinFrom(_, _, _, _)
ArgMinFrom(w, i, best, K) ==
    IF i >= K THEN best
    ELSE IF count(w, kelompok_staff(i)) < count(w, kelompok_staff(best))
         THEN ArgMinFrom(w, i + 1, i, K)
         ELSE ArgMinFrom(w, i + 1, best, K)

ArgMin(w) == ArgMinFrom(w, 1, 0, config.NUM_KELOMPOK)

\* ------------------------------------------------------------------ Init
NoFrame == [waktu_datang |-> 0, n |-> 0, kelompok_idx |-> 0, waktu_mulai |-> 0, svc |-> 0]
NoHistory == [grant |-> 0, join |-> 0, group |-> 0, drained |-> FALSE, before |-> 0, took |-> 0]

\* Configs of the main specification: service 1..3, mean interarrival 1
Configs ==
    [NUM_MAHASISWA : 1 .. MaxMahasiswa,
     NUM_KELOMPOK : 1 .. MaxKelompok,
     NUM_STAFF_PER_KELOMPOK : 1 .. MaxStaff,
     MIN_SERVICE_TIME : {1},
     MAX_SERVICE_TIME : {3},
     MEAN_INTERARRIVAL : {1}]

NoReplay == [mode |-> "off", draws |-> <<>>, k |-> 0,
             first |-> [mahasiswa_data |-> <<>>, queue_lengths |-> <<>>]]

\* the objects KantinPrasmananDES.__init__ builds (lines 31-43)
KantinPrasmananDES ==
    [run_pc |-> "new",
     now |-> 0,
     queue |-> <<>>,
     resource |-> [r \in ResourceIds |->
                     [users |-> {}, put_queue |-> <<>>,
                      capacity |-> IF r = petugas_lauk THEN LAUK_CAPACITY
                                   ELSE IF r = petugas_angkut THEN ANGKUT_CAPACITY
                                   ELSE IF r = petugas_nasi THEN NASI_CAPACITY
                                   ELSE config.NUM_STAFF_PER_KELOMPOK]],
     store |-> [s \in StoreIds |-> [items |-> <<>>, get_queue |-> <<>>, inserted |-> 0, removed |-> 0]],
     pc |-> [i \in Mahasiswa |-> "unborn"],
     frame |-> [i \in Mahasiswa |-> NoFrame],
     gen |-> [pc |-> "new", i |-> 0],
     statistics |-> [mahasiswa_data |-> <<>>, queue_lengths |-> <<>>],
     history |-> [i \in Mahasiswa |-> NoHistory]]

\* the state KantinPrasmananDES.__init__ leaves
Constructed ==
    /\ run_pc = KantinPrasmananDES.run_pc
    /\ now = KantinPrasmananDES.now
    /\ queue = KantinPrasmananDES.queue
    /\ resource = KantinPrasmananDES.resource
    /\ store = KantinPrasmananDES.store
    /\ pc = KantinPrasmananDES.pc
    /\ frame = KantinPrasmananDES.frame
    /\ gen = KantinPrasmananDES.gen
    /\ statistics = KantinPrasmananDES.statistics
    /\ history = KantinPrasmananDES.history

Init ==
    /\ config \in Configs
    /\ Constructed
    /\ replay = NoReplay

\* --------------------------------------------------------------- stepping
\* Environment.step() pops the head event and sets env.now to its time.
Stepping(kind) ==
    /\ run_pc = "running"
    /\ queue # <<>>
    /\ Head(queue).kind = kind

Resumes(kind, target, at) ==
    /\ Stepping(kind)
    /\ Head(queue).target = target
    /\ Head(queue).proc[1] = "proses_mahasiswa"
    /\ pc[Head(queue).proc[2]] = at

ev == Head(queue)
self == Head(queue).proc[2]

Commit(w) ==
    /\ now' = ev.time
    /\ queue' = w.queue
    /\ resource' = w.resource
    /\ store' = w.store

\* ------------------------------------------------------- run_simulation
\* line 88: env.process(proses_kedatangan())
run_simulation ==
    /\ run_pc = "new"
    /\ run_pc' = "running"
    /\ queue' = Schedule(queue, Event(now, URGENT, "Initialize", kedatangan, no_target))
    /\ gen' = [gen EXCEPT !.pc = "init"]
    /\ UNCHANGED <<config, now, resource, store, pc, frame, statistics, history, replay>>

\* line 89: env.run() returns when no event is left
run_returns ==
    /\ run_pc = "running"
    /\ queue = <<>>
    /\ run_pc' = "returned"
    /\ UNCHANGED <<config, now, queue, resource, store, pc, frame, gen, statistics, history, replay>>

\* ---------------------------------------------------- proses_kedatangan
\* lines 83-85: spawn entity i, then sleep; the generator ends after the
\* sleep that follows the last spawn.
KedatanganLoop(w, t, i, delay) ==
    Timeout(Spawn(w, t, mahasiswa(i)), t, delay, kedatangan)

kedatangan_start ==
    /\ Stepping("Initialize")
    /\ ev.proc = kedatangan
    /\ 0 < config.NUM_MAHASISWA
    /\ \E delay \in Draw(InterarrivalTimes) :
          /\ Commit(KedatanganLoop(World, ev.time, 0, delay))
          /\ replay' = Drawn(delay)
    /\ pc' = [pc EXCEPT ![0] = "init"]
    /\ gen' = [pc |-> "timeout", i |-> 1]
    /\ UNCHANGED <<config, run_pc, frame, statistics, history>>

kedatangan_next ==
    /\ Stepping("Timeout")
    /\ ev.proc = kedatangan
    /\ gen.i < config.NUM_MAHASISWA
    /\ \E delay \in Draw(InterarrivalTimes) :
          /\ Commit(KedatanganLoop(World, ev.time, gen.i, delay))
          /\ replay' = Drawn(delay)
    /\ pc' = [pc EXCEPT ![gen.i] = "init"]
    /\ gen' = [gen EXCEPT !.i = @ + 1]
    /\ UNCHANGED <<config, run_pc, frame, statistics, history>>

kedatangan_end ==
    /\ Stepping("Timeout")
    /\ ev.proc = kedatangan
    /\ gen.i >= config.NUM_MAHASISWA
    /\ Commit(ProcessEnd(World, ev.time, kedatangan))
    /\ gen' = [gen EXCEPT !.pc = "done"]
    /\ UNCHANGED <<config, run_pc, pc, frame, statistics, history, replay>>

\* ----------------------------------------------------- proses_mahasiswa
me == mahasiswa(self)

\* line 49 and lines 51-52: note the arrival instant, request a side-dish slot
mahasiswa_start ==
    /\ Stepping("Initialize")
    /\ ev.proc[1] = "proses_mahasiswa"
    /\ pc[self] = "init"
    /\ Commit(Request(World, ev.time, petugas_lauk, me))
    /\ frame' = [frame EXCEPT ![self].waktu_datang = ev.time]
    /\ pc' = [pc EXCEPT ![self] = "lauk_req"]
    /\ UNCHANGED <<config, run_pc, gen, statistics, history, replay>>

\* line 53: hold the side-dish slot
lauk_granted ==
    /\ Resumes("Request", petugas_lauk, "lauk_req")
    /\ \E d \in Draw(LaukTimes) :
          /\ Commit(Timeout(World, ev.time, d, me))
          /\ replay' = Drawn(d)
    /\ pc' = [pc EXCEPT ![self] = "lauk_hold"]
    /\ UNCHANGED <<config, run_pc, frame, gen, statistics, history>>

\* end of the with block of line 51, then line 54: put the id into the batch buffer
lauk_done ==
    /\ Stepping("Timeout")
    /\ ev.proc[1] = "proses_mahasiswa"
    /\ pc[self] = "lauk_hold"
    /\ Commit(StorePut(Release(World, ev.time, petugas_lauk, me), ev.time, antrian_angkut, me, self))
    /\ pc' = [pc EXCEPT ![self] = "angkut_put"]
    /\ UNCHANGED <<config, run_pc, frame, gen, statistics, history, replay>>

\* mutant of StartsDrain: no drain starts while another one holds or awaits a
\* transport slot
StartsDrain_Atomic(w) ==
    /\ Len(w.store[antrian_angkut].items) >= DRAIN_THRESHOLD
    /\ w.resource[petugas_angkut].users = {}
    /\ w.resource[petugas_angkut].put_queue = <<>>

\* line 55: the drain trigger looks at the buffer length only
StartsDrain(w) == Len(w.store[antrian_angkut].items) >= DRAIN_THRESHOLD

\* The StorePut event fires: its first callback is the store's _trigger_get,
\* then the generator resumes at line 55 and either starts a drain (line 56)
\* or goes on to the rice stage (line 60).
angkut_put_done ==
    /\ Resumes("StorePut", antrian_angkut, "angkut_put")
    /\ LET w == TriggerGet(World, ev.time, antrian_angkut)
       IN IF StartsDrain(w)
          THEN /\ Commit(Request(w, ev.time, petugas_angkut, me))
               /\ pc' = [pc EXCEPT ![self] = "angkut_req"]
               /\ history' = [history EXCEPT ![self].drained = TRUE,
                                              ![self].before = w.store[antrian_angkut].removed]
          ELSE /\ Commit(Request(w, ev.time, petugas_nasi, me))
               /\ pc' = [pc EXCEPT ![self] = "nasi_req"]
               /\ UNCHANGED history
    /\ UNCHANGED <<config, run_pc, frame, gen, statistics, replay>>

\* line 58: hold the transport slot
angkut_granted ==
    /\ Resumes("Request", petugas_angkut, "angkut_req")
    /\ \E d \in Draw(AngkutTimes) :
          /\ Commit(Timeout(World, ev.time, d, me))
          /\ replay' = Drawn(d)
    /\ pc' = [pc EXCEPT ![self] = "angkut_hold"]
    /\ UNCHANGED <<config, run_pc, frame, gen, statistics, history>>

\* line 59, one turn of the for loop with k removals still to issue: issue a
\* get and suspend on it, or (k = 0) leave the with block of line 56 and
\* request a rice slot (lines 60-61).
DrainLoop(w, t, proc, k) ==
    IF k > 0 THEN StoreGet(w, t, antrian_angkut, proc)
    ELSE Request(Release(w, t, petugas_angkut, proc), t, petugas_nasi, proc)

\* line 59: range(min(5, len(items))) is evaluated once, when the hold ends
angkut_hold_done ==
    /\ Stepping("Timeout")
    /\ ev.proc[1] = "proses_mahasiswa"
    /\ pc[self] = "angkut_hold"
    /\ LET k == Min(DRAIN_MAX, Len(store[antrian_angkut].items))
       IN /\ Commit(DrainLoop(World, ev.time, me, k))
          /\ frame' = [frame EXCEPT ![self].n = IF k > 0 THEN k - 1 ELSE 0]
          /\ pc' = [pc EXCEPT ![self] = IF k > 0 THEN "angkut_get" ELSE "nasi_req"]
    /\ UNCHANGED <<config, run_pc, gen, statistics, history, replay>>

\* line 59: a get of the drain has fired, the loop goes on
angkut_get_done ==
    /\ Resumes("StoreGet", antrian_angkut, "angkut_get")
    /\ LET k == frame[self].n
       IN /\ Commit(DrainLoop(World, ev.time, me, k))
          /\ frame' = [frame EXCEPT ![self].n = IF k > 0 THEN k - 1 ELSE 0]
          /\ pc' = [pc EXCEPT ![self] = IF k > 0 THEN "angkut_get" ELSE "nasi_req"]
    /\ history' = [history EXCEPT ![self].took = @ + 1]
    /\ UNCHANGED <<config, run_pc, gen, statistics, replay>>

\* line 62: hold the rice slot
nasi_granted ==
    /\ Resumes("Request", petugas_nasi, "nasi_req")
    /\ \E d \in Draw(NasiTimes) :
          /\ Commit(Timeout(World, ev.time, d, me))
          /\ replay' = Drawn(d)
    /\ pc' = [pc EXCEPT ![self] = "nasi_hold"]
    /\ UNCHANGED <<config, run_pc, frame, gen, statistics, history>>

\* end of the with block of line 60, then line 65: join the main queue
nasi_done ==
    /\ Stepping("Timeout")
    /\ ev.proc[1] = "proses_mahasiswa"
    /\ pc[self] = "nasi_hold"
    /\ Commit(StorePut(Release(World, ev.time, petugas_nasi, me), ev.time, antrian, me, self))
    /\ history' = [history EXCEPT ![self].join = ev.time]
    /\ pc' = [pc EXCEPT ![self] = "antrian_put"]
    /\ UNCHANGED <<config, run_pc, frame, gen, statistics, replay>>

\* mutant of QueueLengthSample: the length is read before the entity's own id
\* is counted
QueueLengthSample_BeforeJoin(w, t) == [time |-> t, length |-> Len(w.store[antrian].items) - 1]

\* line 66: the sample appended to queue_lengths
QueueLengthSample(w, t) == [time |-> t, length |-> Len(w.store[antrian].items)]

\* mutant of antrian_put_done: the sample is appended twice
antrian_put_done_TwoSamples ==
    /\ Resumes("StorePut", antrian, "antrian_put")
    /\ LET w == TriggerGet(World, ev.time, antrian)
           kelompok_idx == ArgMin(w)
       IN /\ Commit(Request(w, ev.time, kelompok_staff(kelompok_idx), me))
          /\ statistics' = [statistics EXCEPT !.queue_lengths =
                  Append(Append(@, QueueLengthSample(w, ev.time)), QueueLengthSample(w, ev.time))]
          /\ frame' = [frame EXCEPT ![self].kelompok_idx = kelompok_idx,
                                     ![self].waktu_mulai = ev.time]
    /\ pc' = [pc EXCEPT ![self] = "staff_req"]
    /\ UNCHANGED <<config, run_pc, gen, history, replay>>

\* lines 66-71: sample the queue length, pick a group, note waktu_mulai,
\* request a slot of the chosen group
antrian_put_done ==
    /\ Resumes("StorePut", antrian, "antrian_put")
    /\ LET w == TriggerGet(World, ev.time, antrian)
           kelompok_idx == ArgMin(w)
       IN /\ Commit(Request(w, ev.time, kelompok_staff(kelompok_idx), me))
          /\ statistics' = [statistics EXCEPT !.queue_lengths = Append(@, QueueLengthSample(w, ev.time))]
          /\ frame' = [frame EXCEPT ![self].kelompok_idx = kelompok_idx,
                                     ![self].waktu_mulai = ev.time]
    /\ pc' = [pc EXCEPT ![self] = "staff_req"]
    /\ UNCHANGED <<config, run_pc, gen, history, replay>>

\* lines 72-73: the group slot is granted, draw svc and hold the slot
staff_granted ==
    /\ Stepping("Request")
    /\ ev.target[1] = "kelompok_staff"
    /\ pc[self] = "staff_req"
    /\ \E d \in Draw(ServiceTimes) :
          /\ Commit(Timeout(World, ev.time, d, me))
          /\ frame' = [frame EXCEPT ![self].svc = d]
          /\ replay' = Drawn(d)
    /\ history' = [history EXCEPT ![self].grant = ev.time, ![self].group = ev.target[2]]
    /\ pc' = [pc EXCEPT ![self] = "staff_hold"]
    /\ UNCHANGED <<config, run_pc, gen, statistics>>

\* end of the with block of line 70, then line 75: leave the main queue
staff_done ==
    /\ Stepping("Timeout")
    /\ ev.proc[1] = "proses_mahasiswa"
    /\ pc[self] = "staff_hold"
    /\ Commit(StoreGet(Release(World, ev.time, kelompok_staff(frame[self].kelompok_idx), me),
                       ev.time, antrian, me))
    /\ pc' = [pc EXCEPT ![self] = "antrian_get"]
    /\ UNCHANGED <<config, run_pc, frame, gen, statistics, history, replay>>

\* mutant of Record: the operands of the wait are swapped
Record_WaitSwapped(id, f, t) ==
    [id |-> id, datang |-> f.waktu_datang, mulai |-> f.waktu_mulai, selesai |-> t,
     tunggu |-> f.waktu_datang - f.waktu_mulai, layanan |-> f.svc,
     kelompok |-> f.kelompok_idx + 1]

\* mutant of Record: the id is stored one-based
Record_OneBasedId(id, f, t) ==
    [id |-> id + 1, datang |-> f.waktu_datang, mulai |-> f.waktu_mulai, selesai |-> t,
     tunggu |-> f.waktu_mulai - f.waktu_datang, layanan |-> f.svc,
     kelompok |-> f.kelompok_idx + 1]

\* mutant of Record: the group is stored as the zero-based index
Record_ZeroBasedGroup(id, f, t) ==
    [id |-> id, datang |-> f.waktu_datang, mulai |-> f.waktu_mulai, selesai |-> t,
     tunggu |-> f.waktu_mulai - f.waktu_datang, layanan |-> f.svc,
     kelompok |-> f.kelompok_idx]

\* lines 76-80: the record of the departing entity
Record(id, f, t) ==
    [id |-> id, datang |-> f.waktu_datang, mulai |-> f.waktu_mulai, selesai |-> t,
     tunggu |-> f.waktu_mulai - f.waktu_datang, layanan |-> f.svc,
     kelompok |-> f.kelompok_idx + 1]

\* lines 75-80: the get has fired, append the record; the generator ends
antrian_get_done ==
    /\ Resumes("StoreGet", antrian, "antrian_get")
    /\ Commit(ProcessEnd(World, ev.time, me))
    /\ statistics' = [statistics EXCEPT !.mahasiswa_data = Append(@, Record(self, frame[self], ev.time))]
    /\ pc' = [pc EXCEPT ![self] = "done"]
    /\ UNCHANGED <<config, run_pc, frame, gen, history, replay>>

\* ------------------------------------------------ events nobody waits on
\* A Release event fires: its callback _trigger_put serves the next waiter.
release_fires ==
    /\ Stepping("Release")
    /\ Commit(TriggerPut(World, ev.time, ev.target))
    /\ UNCHANGED <<config, run_pc, pc, frame, gen, statistics, history, replay>>

\* A finished generator's Process event fires: it has no callbacks.
process_fires ==
    /\ Stepping("Process")
    /\ Commit(World)
    /\ UNCHANGED <<config, run_pc, pc, frame, gen, statistics, history, replay>>

Next ==
    \/ run_simulation
    \/ run_returns
    \/ kedatangan_start
    \/ kedatangan_next
    \/ kedatangan_end
    \/ mahasiswa_start
    \/ lauk_granted
    \/ lauk_done
    \/ angkut_put_done
    \/ angkut_granted
    \/ angkut_hold_done
    \/ angkut_get_done
    \/ nasi_granted
    \/ nasi_done
    \/ antrian_put_done
    \/ staff_granted
    \/ staff_done
    \/ antrian_get_done
    \/ release_fires
    \/ process_fires

Spec == Init /\ [][Next]_vars

\* ------------------------------------------------- two runs, one Config
\* lines 122-127: every click builds a new model from a Config and runs it;
\* __init__ seeds the random stream again (lines 42-43).  The second model
\* starts from the constructed state and meets the draws of the first.
run_again ==
    /\ run_pc = "returned"
    /\ replay.mode = "first"
    /\ config' = config
    /\ run_pc' = KantinPrasmananDES.run_pc
    /\ now' = KantinPrasmananDES.now
    /\ queue' = KantinPrasmananDES.queue
    /\ resource' = KantinPrasmananDES.resource
    /\ store' = KantinPrasmananDES.store
    /\ pc' = KantinPrasmananDES.pc
    /\ frame' = KantinPrasmananDES.frame
    /\ gen' = KantinPrasmananDES.gen
    /\ statistics' = KantinPrasmananDES.statistics
    /\ history' = KantinPrasmananDES.history
    /\ replay' = [mode |-> "second", draws |-> replay.draws, k |-> 0, first |-> statistics]

\* Populations up to the smallest one in which a drain starts.
ReplayConfigs ==
    [NUM_MAHASISWA : 1 .. DRAIN_THRESHOLD,
     NUM_KELOMPOK : {MaxKelompok},
     NUM_STAFF_PER_KELOMPOK : {1, MaxStaff},
     MIN_SERVICE_TIME : {1},
     MAX_SERVICE_TIME : {3},
     MEAN_INTERARRIVAL : {1}]

InitReplay ==
    /\ config \in ReplayConfigs
    /\ Constructed
    /\ replay = [NoReplay EXCEPT !.mode = "first"]

NextReplay ==
    \/ Next
    \/ run_again

SpecReplay == InitReplay /\ [][NextReplay]_vars

\* ------------------------------------------------- any Config at all
\* Config is a plain dataclass (lines 14-25) and __init__ (lines 31-43)
\* checks none of its fields: a population of 0 and service bounds in any
\* order construct a model like any other.  (A capacity below 1 makes
\* simpy.Resource raise in __init__, so no model with one exists.)
AnyConfigs ==
    [NUM_MAHASISWA : 0 .. DRAIN_THRESHOLD,
     NUM_KELOMPOK : {1, MaxKelompok},
     NUM_STAFF_PER_KELOMPOK : {MaxStaff},
     MIN_SERVICE_TIME : {1, 3},
     MAX_SERVICE_TIME : {1, 3},
     MEAN_INTERARRIVAL : {1}]

InitAnyConfig ==
    /\ config \in AnyConfigs
    /\ Constructed
    /\ replay = NoReplay

\* line 83 with NUM_MAHASISWA = 0: range(0) is empty, the generator ends at
\* its first step without spawning anything
kedatangan_none ==
    /\ Stepping("Initialize")
    /\ ev.proc = kedatangan
    /\ config.NUM_MAHASISWA <= 0
    /\ Commit(ProcessEnd(World, ev.time, kedatangan))
    /\ gen' = [gen EXCEPT !.pc = "done"]
    /\ UNCHANGED <<config, run_pc, pc, frame, statistics, history, replay>>

NextAnyConfig ==
    \/ Next
    \/ kedatangan_none

SpecAnyConfig == InitAnyConfig /\ [][NextAnyConfig]_vars

\* ------------------------------------------------- far-apart arrivals
\* One group of one staff member, and a mean interarrival longer than the
\* longest passage of one entity (1 + 2 + 1 + 3): an arrival falls either at
\* the instant of the one before it or after that one has departed.
SerialConfigs ==
    [NUM_MAHASISWA : 1 .. MaxMahasiswa,
     NUM_KELOMPOK : {1},
     NUM_STAFF_PER_KELOMPOK : {1},
     MIN_SERVICE_TIME : {1},
     MAX_SERVICE_TIME : {3},
     MEAN_INTERARRIVAL : {8}]

InitSerial ==
    /\ config \in SerialConfigs
    /\ Constructed
    /\ replay = NoReplay

SpecSerial == InitSerial /\ [][Next]_vars

\* ================================================================ claims
Records == {statistics.mahasiswa_data[k] : k \in 1 .. Len(statistics.mahasiswa_data)}
Occupancy(r) == Cardinality(resource[r].users)
Waiting(r) == resource[r].put_queue
Assigned(g) == Cardinality({r \in Records : r.kelompok = g + 1})

\* C1: when run() has returned, exactly NUM_MAHASISWA entities have departed:
\* every spawned entity has reached the end of its process and has a record.
C1_AllDepart ==
    run_pc = "returned" =>
        /\ Len(statistics.mahasiswa_data) = config.NUM_MAHASISWA
        /\ \A i \in Mahasiswa : pc[i] = "done"

\* C2: in every reachable state every pool holds between 0 and its capacity
\* slots: side-dish 3, transport 2, rice 2, every server group staffPerGroup.
C2_OccupancyWithinCapacity ==
    /\ Occupancy(petugas_lauk) \in 0 .. 3
    /\ Occupancy(petugas_angkut) \in 0 .. 2
    /\ Occupancy(petugas_nasi) \in 0 .. 2
    /\ \A g \in Kelompok : Occupancy(kelompok_staff(g)) \in 0 .. config.NUM_STAFF_PER_KELOMPOK

\* C2 witness: the side-dish pool is full and an entity waits for it.
C2_Witness ==
    /\ Occupancy(petugas_lauk) = 3
    /\ Waiting(petugas_lauk) # <<>>

\* C3: the recorded wait of every record is the instant the
\* entity's group slot was granted minus the instant it joined the main queue.
C3_WaitIsGrantMinusJoin ==
    \A r \in Records : r.tunggu = history[r.id].grant - history[r.id].join

\* C4: the recorded service duration of every record is the recorded
\* completion time minus the recorded service-start time.
C4_ServiceIsCompletionMinusStart ==
    \A r \in Records : r.layanan = r.selesai - r.mulai

\* C5: every record has a non-negative wait and a service start that is not
\* after its completion.
C5_RecordOrdered ==
    \A r \in Records : r.tunggu >= 0 /\ r.mulai <= r.selesai

\* C5 witness: a record with a positive wait and a start before its completion.
C5_Witness ==
    \E r \in Records : r.tunggu > 0 /\ r.mulai < r.selesai

\* group g has the fewest occupied slots, and the lowest index among those
LeastLoaded(g) ==
    \A h \in Kelompok :
        /\ Occupancy(kelompok_staff(g)) <= Occupancy(kelompok_staff(h))
        /\ Occupancy(kelompok_staff(g)) = Occupancy(kelompok_staff(h)) => g <= h

\* C6: the group an entity requests when it joins the main queue is the one
\* with the fewest occupied slots at that instant, lowest index on ties; the
\* request goes to that group, and the choice is never changed afterwards.
C6_ChosenOnceLeastLoaded ==
    [][\A i \in Mahasiswa :
          /\ (pc[i] = "antrian_put" /\ pc'[i] = "staff_req") =>
                /\ LeastLoaded(frame'[i].kelompok_idx)
                /\ \/ mahasiswa(i) \in resource'[kelompok_staff(frame'[i].kelompok_idx)].users
                   \/ \E k \in DOMAIN resource'[kelompok_staff(frame'[i].kelompok_idx)].put_queue :
                         resource'[kelompok_staff(frame'[i].kelompok_idx)].put_queue[k] = mahasiswa(i)
          /\ pc[i] \in {"staff_req", "staff_hold", "antrian_get", "done"} =>
                frame'[i].kelompok_idx = frame[i].kelompok_idx]_vars

\* C6 witness: an entity still waits for the group it chose although another
\* group has fewer occupied slots by now.
C6_Witness ==
    \E i \in Mahasiswa :
        /\ pc[i] = "staff_req"
        /\ \E k \in DOMAIN Waiting(kelompok_staff(frame[i].kelompok_idx)) :
              Waiting(kelompok_staff(frame[i].kelompok_idx))[k] = mahasiswa(i)
        /\ \E h \in Kelompok :
              Occupancy(kelompok_staff(h)) < Occupancy(kelompok_staff(frame[i].kelompok_idx))

\* C7 (as claimed): at the end of a run the assignment counts of any two
\* groups differ by at most the number of groups, and no group has a free
\* slot while entities wait in another group's wait list.
C7_Balanced ==
    /\ run_pc = "returned" =>
          \A g, h \in Kelompok : Assigned(g) - Assigned(h) <= config.NUM_KELOMPOK
    /\ \A g, h \in Kelompok :
          (g # h /\ Waiting(kelompok_staff(h)) # <<>>) =>
              Occupancy(kelompok_staff(g)) >= config.NUM_STAFF_PER_KELOMPOK

\* C7 (amended): the balancer compares occupied slots only, so a backlog can
\* build at the first group alone: the wait list of every other group is
\* always empty.
C7_BacklogOnlyAtFirstGroup ==
    \A h \in Kelompok : h >= 1 => Waiting(kelompok_staff(h)) = <<>>

\* C7 witness: two entities wait for the first group while another group is idle.
C7_Witness ==
    /\ config.NUM_KELOMPOK >= 2
    /\ Len(Waiting(kelompok_staff(0))) >= 2
    /\ \E h \in Kelompok : h >= 1 /\ Occupancy(kelompok_staff(h)) = 0

\* C8: no removal issued by a drain ever suspends: no get is left pending on
\* the batch buffer.
C8_DrainNeverSuspends ==
    store[antrian_angkut].get_queue = <<>>

\* C9: the items removed from the batch buffer never outnumber the items put
\* into it, and the buffer length is their (non-negative) difference.
C9_RemovedAtMostInserted ==
    /\ store[antrian_angkut].removed <= store[antrian_angkut].inserted
    /\ Len(store[antrian_angkut].items) = store[antrian_angkut].inserted - store[antrian_angkut].removed

\* C9 witness: a drain asks for one more item after everything put so far
\* has been removed.
C9_Witness ==
    /\ store[antrian_angkut].removed >= DRAIN_THRESHOLD
    /\ store[antrian_angkut].removed = store[antrian_angkut].inserted
    /\ store[antrian_angkut].get_queue # <<>>

\* C10: when no event remains, every granted slot has been released: the
\* occupancy of every pool is 0 and nobody waits for a slot.
C10_NoLeakedSlot ==
    run_pc = "returned" =>
        \A r \in ResourceIds : Occupancy(r) = 0 /\ Waiting(r) = <<>>

Last(q) == q[Len(q)]

\* C11: queue_lengths grows by exactly one sample per entity, appended when
\* the entity joins the main queue and stamped with that instant, and the
\* sample times never decrease along the sequence.
C11_OneSamplePerJoin ==
    [][/\ \A i \in Mahasiswa :
             (pc[i] = "antrian_put" /\ pc'[i] # "antrian_put") =>
                 /\ Len(statistics'.queue_lengths) = Len(statistics.queue_lengths) + 1
                 /\ Last(statistics'.queue_lengths).time = history[i].join
       /\ statistics'.queue_lengths # statistics.queue_lengths =>
             /\ \E i \in Mahasiswa : pc[i] = "antrian_put" /\ pc'[i] = "staff_req"
             /\ SubSeq(statistics'.queue_lengths, 1, Len(statistics.queue_lengths)) = statistics.queue_lengths
             /\ statistics.queue_lengths # <<>> =>
                   Last(statistics.queue_lengths).time <= Last(statistics'.queue_lengths).time
       /\ run_pc' = "returned" =>
             Len(statistics.queue_lengths) =
                 Cardinality({i \in Mahasiswa : pc[i] \in {"staff_req", "staff_hold", "antrian_get", "done"}})]_vars

\* C11 witness: two samples taken at different instants.
C11_Witness ==
    /\ Len(statistics.queue_lengths) >= 2
    /\ statistics.queue_lengths[1].time < Last(statistics.queue_lengths).time

\* C12: mahasiswa_data only grows by appending; every record carries an id
\* in 0..population-1 that no earlier record carries, ids follow the spawn
\* order of the arrival generator, and completion times never decrease
\* along the sequence.
C12_RecordsAppendOnly ==
    [][statistics'.mahasiswa_data # statistics.mahasiswa_data =>
          /\ Len(statistics'.mahasiswa_data) = Len(statistics.mahasiswa_data) + 1
          /\ SubSeq(statistics'.mahasiswa_data, 1, Len(statistics.mahasiswa_data)) = statistics.mahasiswa_data
          /\ LET new == Last(statistics'.mahasiswa_data)
             IN /\ new.id \in 0 .. (config.NUM_MAHASISWA - 1)
                /\ \A r \in Records :
                      /\ r.id # new.id
                      /\ r.selesai <= new.selesai
                      /\ r.id < new.id => r.datang <= new.datang
                      /\ r.id > new.id => r.datang >= new.datang]_vars

\* C12 witness: a later-spawned entity departed before an earlier one.
C12_Witness ==
    \E k \in 1 .. (Len(statistics.mahasiswa_data) - 1) :
        statistics.mahasiswa_data[k].id > statistics.mahasiswa_data[k + 1].id

IsPrefix(p, q) == Len(p) <= Len(q) /\ SubSeq(q, 1, Len(p)) = p

ConfigInvalid ==
    \/ config.NUM_STAFF_PER_KELOMPOK <= 0
    \/ config.NUM_MAHASISWA <= 0
    \/ config.MIN_SERVICE_TIME >= config.MAX_SERVICE_TIME
    \/ config.MEAN_INTERARRIVAL <= 0

\* C14: under a Config with a non-positive population or with minService >=
\* maxService no event is ever scheduled, no entity process is spawned and
\* no statistics are recorded.
C14_InvalidConfigRejected ==
    ConfigInvalid =>
        /\ run_pc = "new"
        /\ queue = <<>>
        /\ \A i \in Mahasiswa : pc[i] = "unborn"
        /\ statistics = [mahasiswa_data |-> <<>>, queue_lengths |-> <<>>]

\* C15: with a population of 1 the run ends with exactly one EntityRecord
\* and exactly one QueueLengthSample, whose length is 1.
C15_SingleEntity ==
    (config.NUM_MAHASISWA = 1 /\ run_pc = "returned") =>
        /\ Len(statistics.mahasiswa_data) = 1
        /\ Len(statistics.queue_lengths) = 1
        /\ statistics.queue_lengths[1].length = 1

\* C15 witness: a run with a population of 1 has returned, its entity done.
C15_Witness ==
    /\ config.NUM_MAHASISWA = 1
    /\ run_pc = "returned"
    /\ pc[0] = "done"

\* every entity spawned so far arrived after the one before it had departed
Serialized ==
    \A i \in Mahasiswa :
        (i >= 1 /\ pc[i] # "unborn") =>
            /\ pc[i - 1] = "done"
            /\ \A k \in 1 .. Len(statistics.mahasiswa_data) :
                  (statistics.mahasiswa_data[k].id = i - 1 /\ pc[i] # "init") =>
                      statistics.mahasiswa_data[k].selesai <= frame[i].waktu_datang

\* C16: with one group of one staff member and every entity departing before
\* the next one arrives, every QueueLengthSample has length at most 1.
C16_SerializedQueueAtMostOne ==
    (config.NUM_KELOMPOK = 1 /\ config.NUM_STAFF_PER_KELOMPOK = 1 /\ Serialized) =>
        \A k \in 1 .. Len(statistics.queue_lengths) :
            statistics.queue_lengths[k].length <= 1

\* C16 witness: a serialized run of at least three entities has returned
\* with a sample from each of them.
C16_Witness ==
    /\ config.NUM_KELOMPOK = 1
    /\ config.NUM_STAFF_PER_KELOMPOK = 1
    /\ Serialized
    /\ run_pc = "returned"
    /\ Len(statistics.queue_lengths) >= 3
    /\ Len(statistics.mahasiswa_data) >= 3

\* C17: the group stored in every EntityRecord is the zero-based index of
\* the group that served the entity; with one group every record says 0.
C17_GroupIsZeroBased ==
    \A k \in 1 .. Len(statistics.mahasiswa_data) :
        LET r == statistics.mahasiswa_data[k]
        IN /\ r.kelompok = history[r.id].group
           /\ config.NUM_KELOMPOK = 1 => r.kelompok = 0

\* C17 amended: the group stored in every EntityRecord is one more than the
\* zero-based index of the group that served the entity, so it lies in
\* 1 .. NUM_KELOMPOK and is 1 when there is one group.
C17_GroupIsOneBased ==
    \A k \in 1 .. Len(statistics.mahasiswa_data) :
        LET r == statistics.mahasiswa_data[k]
        IN /\ r.kelompok = history[r.id].group + 1
           /\ r.kelompok \in 1 .. config.NUM_KELOMPOK
           /\ config.NUM_KELOMPOK = 1 => r.kelompok = 1

\* C17 witness: records of entities served by the first and by the second group.
C17_Witness ==
    /\ \E k \in 1 .. Len(statistics.mahasiswa_data) :
          /\ statistics.mahasiswa_data[k].kelompok = 1
          /\ history[statistics.mahasiswa_data[k].id].group = 0
    /\ \E k \in 1 .. Len(statistics.mahasiswa_data) :
          /\ statistics.mahasiswa_data[k].kelompok = 2
          /\ history[statistics.mahasiswa_data[k].id].group = 1

\* C18: when the run has ended the batch buffer is empty, every id put into
\* it having been removed by some drain.
C18_BufferEmptyAtEnd ==
    run_pc = "returned" =>
        /\ store[antrian_angkut].items = <<>>
        /\ store[antrian_angkut].removed = store[antrian_angkut].inserted

DrainOver(i) ==
    pc[i] \in {"nasi_req", "nasi_hold", "antrian_put", "staff_req", "staff_hold", "antrian_get", "done"}

\* C19: the drain trigger is not atomic.  An entity whose put has completed
\* starts a drain exactly when it sees at least 4 ids in the buffer, whatever
\* drains are already under way; and two entities that are both in a drain
\* and have issued no removal yet started on the same, unreduced backlog.
C19_TriggerNotAtomic ==
    [][/\ \A i \in Mahasiswa :
             (pc[i] = "angkut_put" /\ pc'[i] # "angkut_put") =>
                 /\ pc'[i] = "angkut_req" <=>
                        Len(store'[antrian_angkut].items) >= DRAIN_THRESHOLD
                 /\ pc'[i] = "nasi_req" <=>
                        Len(store'[antrian_angkut].items) < DRAIN_THRESHOLD
       /\ \A i, j \in Mahasiswa :
             (/\ i # j
              /\ pc'[i] \in {"angkut_req", "angkut_hold"}
              /\ pc'[j] \in {"angkut_req", "angkut_hold"}
              /\ history'[i].before = store'[antrian_angkut].removed
              /\ history'[j].before = store'[antrian_angkut].removed) =>
                 Len(store'[antrian_angkut].items) >= DRAIN_THRESHOLD]_vars

\* C19 witness: two entities started drains on the same backlog, no removal
\* in between; one of them removed the whole backlog of 4 and the other has
\* ended its drain having removed nothing.
C19_Witness ==
    \E i, j \in Mahasiswa :
        /\ i # j
        /\ history[i].drained
        /\ history[j].drained
        /\ history[i].before = history[j].before
        /\ DrainOver(i)
        /\ history[i].took = 0
        /\ history[j].took = DRAIN_THRESHOLD

\* the entities that have joined the main queue and not yet departed
InMainQueue ==
    {i \in Mahasiswa : pc[i] \in {"antrian_put", "staff_req", "staff_hold"}}

\* C20: the main queue holds as many ids as there are entities that joined
\* it and have not departed (waiting for a group slot or being served, or
\* just joined), and no departure removal is ever left pending on it.
C20_MainQueueLength ==
    /\ Len(store[antrian].items) = Cardinality(InMainQueue)
    /\ store[antrian].get_queue = <<>>
    /\ store[antrian].removed =
           Cardinality({i \in Mahasiswa : pc[i] \in {"antrian_get", "done"}})

\* C20 witness: an entity has departed while its own id is still in the
\* main queue: its removal took the id of an entity still being served.
C20_Witness ==
    \E i \in Mahasiswa :
        /\ pc[i] = "done"
        /\ \E k \in 1 .. Len(store[antrian].items) : store[antrian].items[k] = i
        /\ \E j \in InMainQueue :
              \A k \in 1 .. Len(store[antrian].items) : store[antrian].items[k] # j

====
